---- MODULE Spec2Model ----
(***************************************************************************)
(* Session authority of TehanIsum/vercel-host-webpage.                     *)
(*                                                                         *)
(* The repository holds two session mechanisms over a user_sessions table: *)
(*  - the cookie-keyed session manager (lib/supabase/session-manager.ts    *)
(*    with scripts/004_create_user_sessions.sql), statuses active/revoked; *)
(*  - the token-keyed session library (lib/session, unnamed/part_007),     *)
(*    statuses active/terminated/expired with a 20-minute idle timeout.    *)
(* Each is modelled with its own table variable and its own specification. *)
(* Times are milliseconds, as Date.now() and NOW() give them.              *)
(***************************************************************************)
EXTENDS Integers, FiniteSets, Sequences, TLC

VARIABLES user_sessions, nextId, now, calls, ret,
          tok_sessions, tokNext, tokCalls, tokRet,
          hb, resp, mon

vars == <<user_sessions, nextId, now, calls, ret,
          tok_sessions, tokNext, tokCalls, tokRet,
          hb, resp, mon>>

cookieVars == <<user_sessions, nextId, calls, ret>>
tokenVars == <<tok_sessions, tokNext, tokCalls, tokRet>>
\* The API routes' request in progress and last response, and the browser's
\* session monitor.
endpointVars == <<hb, resp, mon>>

\* ------------------------------------------------------------------ bounds
MaxSessions == 2
MaxTicks == 1
MaxDays == 1
MaxTokens == 2
MaxIdleTicks == 2

Users == {"u1", "u2"}
SessionIds == 1..MaxSessions
\* A session id no row was ever stored under.
NoSession == 0
AnyId == {NoSession} \cup SessionIds
Tokens == 1..MaxTokens

\* revoked_at / terminated_at IS NULL
NULL == 0 - 1

DayMs == 24 * 60 * 60 * 1000

\* const SESSION_IDLE_TIMEOUT = 20 * 60 * 1000 // 20 minutes
SESSION_IDLE_TIMEOUT == 20 * 60 * 1000

\* ------------------------------------------------- cookie-keyed manager
\* A row of public.user_sessions (004_create_user_sessions.sql). The key of
\* the function user_sessions is the row's session_id (UNIQUE). device_info
\* stands for the diagnostic columns device_info, ip_address and user_agent,
\* which are written at insert from the request's headers; the requests of
\* the model all come from one kind of device.
Devices == {"desktop", "mobile"}

NewRow(userId, t) ==
    [user_id |-> userId, status |-> "active",
     last_activity_at |-> t, revoked_at |-> NULL, device_info |-> "desktop"]

\* supabase.from('user_sessions').insert({...status: 'active'...})
InsertSession(tbl, userId, sessionId, t) ==
    [s \in DOMAIN tbl \cup {sessionId} |->
        IF s = sessionId THEN NewRow(userId, t) ELSE tbl[s]]

\* revoke_other_sessions as it would be without its user_id filter.
revoke_other_sessions_any_user(tbl, p_user_id, p_current_session_id, t) ==
    [s \in DOMAIN tbl |->
        IF /\ s # p_current_session_id
           /\ tbl[s].status = "active"
        THEN [tbl[s] EXCEPT !.status = "revoked", !.revoked_at = t]
        ELSE tbl[s]]

\* UPDATE ... SET status = 'revoked', revoked_at = NOW()
\*  WHERE user_id = p_user_id AND session_id != p_current_session_id
\*    AND status = 'active'
revoke_other_sessions(tbl, p_user_id, p_current_session_id, t) ==
    [s \in DOMAIN tbl |->
        IF /\ tbl[s].user_id = p_user_id
           /\ s # p_current_session_id
           /\ tbl[s].status = "active"
        THEN [tbl[s] EXCEPT !.status = "revoked", !.revoked_at = t]
        ELSE tbl[s]]

\* update_session_activity as it would be if the heartbeat re-opened the row
\* it touches.
update_session_activity_reopening(tbl, p_session_id, t) ==
    [s \in DOMAIN tbl |->
        IF s = p_session_id
        THEN [tbl[s] EXCEPT !.status = "active", !.revoked_at = NULL,
                            !.last_activity_at = t]
        ELSE tbl[s]]

\* update_session_activity as it would be without its filter on status.
update_session_activity_any_status(tbl, p_session_id, t) ==
    [s \in DOMAIN tbl |->
        IF s = p_session_id
        THEN [tbl[s] EXCEPT !.last_activity_at = t]
        ELSE tbl[s]]

\* UPDATE ... SET last_activity_at = NOW()
\*  WHERE session_id = p_session_id AND status = 'active'
update_session_activity(tbl, p_session_id, t) ==
    [s \in DOMAIN tbl |->
        IF s = p_session_id /\ tbl[s].status = "active"
        THEN [tbl[s] EXCEPT !.last_activity_at = t]
        ELSE tbl[s]]

\* cleanup_old_sessions as it would be without its filter on status.
cleanup_old_sessions_any_status(tbl, p_days_old, t) ==
    LET gone == {s \in DOMAIN tbl : tbl[s].revoked_at < t - p_days_old * DayMs}
    IN  [s \in DOMAIN tbl \ gone |-> tbl[s]]

\* DELETE FROM user_sessions WHERE status = 'revoked'
\*   AND revoked_at < NOW() - (p_days_old || ' days')::INTERVAL
cleanup_old_sessions(tbl, p_days_old, t) ==
    LET gone == {s \in DOMAIN tbl :
                    /\ tbl[s].status = "revoked"
                    /\ tbl[s].revoked_at < t - p_days_old * DayMs}
    IN  [s \in DOMAIN tbl \ gone |-> tbl[s]]

\* revokeSession's update: .update({status:'revoked', revoked_at: now})
\*   .eq('user_id', userId).eq('session_id', sessionId)
RevokeSessionUpdate(tbl, userId, sessionId, t) ==
    [s \in DOMAIN tbl |->
        IF tbl[s].user_id = userId /\ s = sessionId
        THEN [tbl[s] EXCEPT !.status = "revoked", !.revoked_at = t]
        ELSE tbl[s]]

\* revokeAllUserSessions's update as it would be without its revoked_at.
RevokeAllUpdate_no_revoked_at(tbl, userId, t) ==
    [s \in DOMAIN tbl |->
        IF tbl[s].user_id = userId /\ tbl[s].status = "active"
        THEN [tbl[s] EXCEPT !.status = "revoked"]
        ELSE tbl[s]]

\* revokeAllUserSessions's update: .eq('user_id', userId).eq('status','active')
RevokeAllUpdate(tbl, userId, t) ==
    [s \in DOMAIN tbl |->
        IF tbl[s].user_id = userId /\ tbl[s].status = "active"
        THEN [tbl[s] EXCEPT !.status = "revoked", !.revoked_at = t]
        ELSE tbl[s]]

\* validateSession's select: .eq('user_id', userId).eq('session_id',
\* sessionId).single() yields a row or no data
RowFor(tbl, userId, sessionId) ==
    sessionId \in DOMAIN tbl /\ tbl[sessionId].user_id = userId

\* validateSession as it would be if its select also filtered on
\* status = 'active': a revoked row is then no row.
ValidateReason_active_only(tbl, userId, sessionId, lookupOk, t) ==
    IF ~lookupOk \/ ~RowFor(tbl, userId, sessionId) THEN "not_found"
    ELSE IF tbl[sessionId].status = "revoked" THEN "not_found"
    ELSE "valid"

\* validateSession as it would be with the lazy inactivity check of the
\* token-keyed library.
ValidateReason_with_expiry(tbl, userId, sessionId, lookupOk, t) ==
    IF ~lookupOk \/ ~RowFor(tbl, userId, sessionId) THEN "not_found"
    ELSE IF tbl[sessionId].status = "revoked" THEN "revoked"
    ELSE IF t - tbl[sessionId].last_activity_at >= SESSION_IDLE_TIMEOUT THEN "expired"
    ELSE "valid"

\* validateSession as it would be if it refused sessions made on a mobile
\* device.
ValidateReason_desktop_only(tbl, userId, sessionId, lookupOk, t) ==
    IF ~lookupOk \/ ~RowFor(tbl, userId, sessionId) THEN "not_found"
    ELSE IF tbl[sessionId].status = "revoked" THEN "revoked"
    ELSE IF tbl[sessionId].device_info = "mobile" THEN "not_found"
    ELSE "valid"

\* validateSession's answer. It reads status and revoked_at, and no clock
\* (t). lookupOk is FALSE when the query returned an
\* error or threw; both paths answer 'not_found'.
ValidateReason(tbl, userId, sessionId, lookupOk, t) ==
    IF ~lookupOk \/ ~RowFor(tbl, userId, sessionId) THEN "not_found"
    ELSE IF tbl[sessionId].status = "revoked" THEN "revoked"
    ELSE "valid"

\* ret observes what the step just taken handed back to its caller, for the
\* two calls whose answers drive the clients: validateSession (its reason)
\* and revokeSession (its boolean). After any other step it is NoRet; the
\* clock leaves it alone.
Ret(op, result) == [op |-> op, result |-> result]
NoRet == Ret("none", "-")

NoCall == [user |-> "-", pc |-> "none"]

\* The session ids a caller can present: those issued so far, and one that
\* names no row.
Presented == {NoSession} \cup (1..nextId)

\* ---- createUserSession, first store round trip: the insert. sessionId is
\* the uuid generateSessionId() made for this login, fresh by construction.
\* An insertError returns failure and leaves no row: that uuid is one more
\* id without a row, as NoSession is.
CreateInsert(userId, ok) ==
    /\ nextId < MaxSessions
    /\ IF ok
       THEN /\ nextId' = nextId + 1
            /\ user_sessions' = InsertSession(user_sessions, userId, nextId + 1, now)
            /\ calls' = [calls EXCEPT ![nextId + 1] = [user |-> userId, pc |-> "inserted"]]
       ELSE /\ UNCHANGED <<nextId, user_sessions, calls>>
    /\ ret' = NoRet
    /\ UNCHANGED <<now, tokenVars, endpointVars>>

\* ---- createUserSession, second round trip: rpc('revoke_other_sessions').
\* A revokeError is logged and the call still returns success.
CreateRevoke(sessionId, ok) ==
    /\ calls[sessionId].pc = "inserted"
    /\ user_sessions' =
          IF ok THEN revoke_other_sessions(user_sessions, calls[sessionId].user, sessionId, now)
          ELSE user_sessions
    /\ calls' = [calls EXCEPT ![sessionId] = [user |-> "-", pc |-> "returned"]]
    /\ ret' = NoRet
    /\ UNCHANGED <<nextId, now, tokenVars, endpointVars>>

ValidateSession(userId, sessionId, ok) ==
    /\ ret' = Ret("validateSession",
                  ValidateReason(user_sessions, userId, sessionId, ok, now))
    /\ UNCHANGED <<user_sessions, nextId, now, calls, tokenVars, endpointVars>>

UpdateSessionActivity(sessionId, ok) ==
    /\ user_sessions' =
          IF ok THEN update_session_activity(user_sessions, sessionId, now)
          ELSE user_sessions
    /\ ret' = NoRet
    /\ UNCHANGED <<nextId, now, calls, tokenVars, endpointVars>>

RevokeSession(userId, sessionId, ok) ==
    /\ user_sessions' =
          IF ok THEN RevokeSessionUpdate(user_sessions, userId, sessionId, now)
          ELSE user_sessions
    /\ ret' = Ret("revokeSession", IF ok THEN "true" ELSE "false")
    /\ UNCHANGED <<nextId, now, calls, tokenVars, endpointVars>>

RevokeAllUserSessions(userId, ok) ==
    /\ user_sessions' =
          IF ok THEN RevokeAllUpdate(user_sessions, userId, now)
          ELSE user_sessions
    /\ ret' = NoRet
    /\ UNCHANGED <<nextId, now, calls, tokenVars, endpointVars>>

CleanupOldSessions(p_days_old) ==
    /\ UNCHANGED <<nextId, now, calls, tokenVars, endpointVars>>
    /\ ret' = NoRet
    /\ user_sessions' = cleanup_old_sessions(user_sessions, p_days_old, now)

\* The wall clock of the cookie-keyed manager, one day per step.
TickDay ==
    /\ now < MaxTicks * DayMs
    /\ now' = now + DayMs
    /\ UNCHANGED <<cookieVars, tokenVars, endpointVars>>

InitCookie ==
    /\ user_sessions = <<>>
    /\ nextId = 0
    /\ now = 0
    /\ calls = [s \in SessionIds |-> NoCall]
    /\ ret = NoRet

\* -------------------------------------------------- token-keyed library
\* A row of the library's user_sessions table, keyed by session_token.
NewTokRow(userId, t) ==
    [user_id |-> userId, status |-> "active",
     last_activity_at |-> t, terminated_at |-> NULL]

TickMs == 10 * 60 * 1000

NOT_FOUND_REASON == "Session not found or terminated"
EXPIRED_REASON == "Session expired due to inactivity"

\* isSessionExpired as it would be with a strict comparison.
isSessionExpired_strict(lastActivity, t) ==
    (t - lastActivity) > SESSION_IDLE_TIMEOUT

\* isSessionExpired: (now - lastActivityTime) >= SESSION_IDLE_TIMEOUT
isSessionExpired(lastActivity, t) ==
    (t - lastActivity) >= SESSION_IDLE_TIMEOUT

\* getActiveSession as it would be without its filter on status.
getActiveSession_any_status(tbl, sessionToken) ==
    sessionToken \in DOMAIN tbl

\* getActiveSession's select: .eq('session_token', sessionToken)
\*   .eq('status', 'active').single()
getActiveSession(tbl, sessionToken) ==
    sessionToken \in DOMAIN tbl /\ tbl[sessionToken].status = "active"

\* The UPDATE policy "Update Own Active Sessions": a client's update reaches
\* only rows that are active.
update_own_active(row) == row.status = "active"

\* terminate_previous_sessions_trigger, fired by the INSERT: all previous
\* active sessions of the user become 'terminated'.
terminate_previous_sessions(tbl, userId, t) ==
    [k \in DOMAIN tbl |->
        IF tbl[k].user_id = userId /\ tbl[k].status = "active"
        THEN [tbl[k] EXCEPT !.status = "terminated", !.terminated_at = t]
        ELSE tbl[k]]

\* createSession's insert of an active row, with the trigger it fires.
InsertTokSession(tbl, userId, sessionToken, t) ==
    LET prior == terminate_previous_sessions(tbl, userId, t)
    IN  [k \in DOMAIN tbl \cup {sessionToken} |->
            IF k = sessionToken THEN NewTokRow(userId, t) ELSE prior[k]]

\* updateSessionActivity's update: .update({last_activity_at})
\*   .eq('session_token', sessionToken).eq('status', 'active')
ActivityUpdate(tbl, sessionToken, t) ==
    [k \in DOMAIN tbl |->
        IF k = sessionToken /\ tbl[k].status = "active" /\ update_own_active(tbl[k])
        THEN [tbl[k] EXCEPT !.last_activity_at = t]
        ELSE tbl[k]]

\* terminateSession's update as it would be without its filter on status.
TerminateUpdate_any_status(tbl, sessionToken, t) ==
    [k \in DOMAIN tbl |->
        IF k = sessionToken
        THEN [tbl[k] EXCEPT !.status = "terminated", !.terminated_at = t]
        ELSE tbl[k]]

\* terminateSession's update: .update({status:'terminated', terminated_at})
\*   .eq('session_token', sessionToken).eq('status', 'active')
TerminateUpdate(tbl, sessionToken, t) ==
    [k \in DOMAIN tbl |->
        IF k = sessionToken /\ tbl[k].status = "active" /\ update_own_active(tbl[k])
        THEN [tbl[k] EXCEPT !.status = "terminated", !.terminated_at = t]
        ELSE tbl[k]]

\* validateSession's expiry write: .update({status:'expired', terminated_at})
\*   .eq('session_token', sessionToken), with no filter on status
ExpireUpdate(tbl, sessionToken, t) ==
    [k \in DOMAIN tbl |->
        IF k = sessionToken /\ update_own_active(tbl[k])
        THEN [tbl[k] EXCEPT !.status = "expired", !.terminated_at = t]
        ELSE tbl[k]]

\* The caller's side of a token: where its validateSession call stands (pc),
\* and whether validateSession has been called on it since the clock last
\* moved (polled).
NoTokCall == [pc |-> "idle", polled |-> FALSE]

\* createSession: the insert (the select before it only feeds
\* hadPreviousSession). The token is generateSessionToken()'s, fresh by
\* construction; a failed insert leaves no row under it.
LibCreateSession(userId, ok) ==
    /\ tokNext < MaxTokens
    /\ LET sessionToken == tokNext + 1 IN
       IF ok
       THEN /\ tokNext' = sessionToken
            /\ tok_sessions' = InsertTokSession(tok_sessions, userId, sessionToken, now)
            /\ tokCalls' = [tokCalls EXCEPT ![sessionToken] =
                              [NoTokCall EXCEPT !.polled = TRUE]]
       ELSE UNCHANGED <<tokNext, tok_sessions, tokCalls>>
    /\ tokRet' = NoRet
    /\ UNCHANGED <<now, cookieVars, endpointVars>>

\* validateSession up to its first return or its expiry write:
\* getActiveSession, then isSessionExpired on the row read.
LibValidateRead(sessionToken, ok) ==
    /\ tokCalls[sessionToken].pc = "idle"
    /\ IF ~ok \/ ~getActiveSession(tok_sessions, sessionToken)
       THEN /\ tokRet' = Ret("validateSession", NOT_FOUND_REASON)
            /\ tokCalls' = [tokCalls EXCEPT ![sessionToken].polled = TRUE]
       ELSE IF isSessionExpired(tok_sessions[sessionToken].last_activity_at, now)
       THEN /\ tokRet' = NoRet
            /\ tokCalls' = [tokCalls EXCEPT ![sessionToken].pc = "expiring",
                                            ![sessionToken].polled = TRUE]
       ELSE /\ tokRet' = Ret("validateSession", "valid")
            /\ tokCalls' = [tokCalls EXCEPT ![sessionToken].polled = TRUE]
    /\ UNCHANGED <<tok_sessions, tokNext, now, cookieVars, endpointVars>>

\* validateSession's expiry write and the return after it. The write's error
\* is not looked at.
LibValidateExpire(sessionToken, ok) ==
    /\ tokCalls[sessionToken].pc = "expiring"
    /\ tok_sessions' =
          IF ok THEN ExpireUpdate(tok_sessions, sessionToken, now) ELSE tok_sessions
    /\ tokCalls' = [tokCalls EXCEPT ![sessionToken].pc = "idle"]
    /\ tokRet' = Ret("validateSession", EXPIRED_REASON)
    /\ UNCHANGED <<tokNext, now, cookieVars, endpointVars>>

LibUpdateSessionActivity(sessionToken, ok) ==
    /\ tok_sessions' =
          IF ok THEN ActivityUpdate(tok_sessions, sessionToken, now) ELSE tok_sessions
    /\ tokRet' = NoRet
    /\ UNCHANGED <<tokNext, tokCalls, now, cookieVars, endpointVars>>

\* terminateSession: the update on the store.
LibTerminateSession(sessionToken, ok) ==
    /\ tok_sessions' =
          IF ok THEN TerminateUpdate(tok_sessions, sessionToken, now) ELSE tok_sessions
    /\ tokRet' = NoRet
    /\ UNCHANGED <<tokNext, tokCalls, now, cookieVars, endpointVars>>

\* The wall clock of the token-keyed library, ten minutes per step.
TickTenMinutes ==
    /\ now < MaxIdleTicks * TickMs
    /\ now' = now + TickMs
    /\ tokCalls' = [k \in Tokens |-> [tokCalls[k] EXCEPT !.polled = FALSE]]
    /\ UNCHANGED <<cookieVars, tok_sessions, tokNext, tokRet, endpointVars>>

InitToken ==
    /\ tok_sessions = <<>>
    /\ tokNext = 0
    /\ tokCalls = [k \in Tokens |-> NoTokCall]
    /\ tokRet = NoRet

\* ------------------------------ token-keyed library, is_active version
\* The version of lib/session in part_006 keeps user_sessions rows with
\* is_active, last_activity and expires_at. Its specification holds them in
\* tok_sessions, under the tokens of tokNext, with tokCalls for where each
\* validateAndRefreshSession call stands.
\* const SESSION_DURATION_MS = 20 * 60 * 1000 // 20 minutes
SESSION_DURATION_MS == 20 * 60 * 1000

\* createSession's insert: expires_at 20 minutes from now, last_activity now,
\* is_active true.
NewAppRow(userId, t) ==
    [user_id |-> userId, is_active |-> TRUE,
     last_activity |-> t, expires_at |-> t + SESSION_DURATION_MS]

\* .eq("session_token", sessionToken).eq("is_active", true).single()
ActiveRow(tbl, sessionToken) ==
    sessionToken \in DOMAIN tbl /\ tbl[sessionToken].is_active

\* validateAndRefreshSession's test:
\*   expiresAt < now || idleTime >= SESSION_DURATION_MS
Lapsed(row, t) ==
    row.expires_at < t \/ t - row.last_activity >= SESSION_DURATION_MS

\* .update({ is_active: false }).eq("session_token", sessionToken)
DeactivateUpdate(tbl, sessionToken) ==
    [k \in DOMAIN tbl |->
        IF k = sessionToken THEN [tbl[k] EXCEPT !.is_active = FALSE] ELSE tbl[k]]

\* The refresh as it would be if it moved last_activity only.
RefreshUpdate_activity_only(tbl, sessionToken, t) ==
    [k \in DOMAIN tbl |->
        IF k = sessionToken THEN [tbl[k] EXCEPT !.last_activity = t] ELSE tbl[k]]

\* .update({ last_activity: now, expires_at: now + SESSION_DURATION_MS })
\*   .eq("session_token", sessionToken)
RefreshUpdate(tbl, sessionToken, t) ==
    [k \in DOMAIN tbl |->
        IF k = sessionToken
        THEN [tbl[k] EXCEPT !.last_activity = t,
                            !.expires_at = t + SESSION_DURATION_MS]
        ELSE tbl[k]]

\* rpc('deactivate_all_user_sessions', { target_user_id }): "Deactivate all
\* active sessions for a user".
deactivate_all_user_sessions(tbl, userId) ==
    [k \in DOMAIN tbl |->
        IF tbl[k].user_id = userId THEN [tbl[k] EXCEPT !.is_active = FALSE]
        ELSE tbl[k]]

\* rpc('cleanup_expired_sessions'): "Cleanup expired sessions": the sessions
\* whose expires_at has passed are deactivated.
cleanup_expired_sessions(tbl, t) ==
    [k \in DOMAIN tbl |->
        IF tbl[k].expires_at < t THEN [tbl[k] EXCEPT !.is_active = FALSE]
        ELSE tbl[k]]

AppUnchanged == UNCHANGED <<now, cookieVars, endpointVars>>

\* ---- createSession of part_006: the insert; storeSessionToken follows.
AppCreateSession(userId, ok) ==
    /\ tokNext < MaxTokens
    /\ LET sessionToken == tokNext + 1 IN
       IF ok
       THEN /\ tokNext' = sessionToken
            /\ tok_sessions' =
                  [k \in DOMAIN tok_sessions \cup {sessionToken} |->
                      IF k = sessionToken THEN NewAppRow(userId, now)
                      ELSE tok_sessions[k]]
            /\ tokCalls' = [tokCalls EXCEPT ![sessionToken] =
                              [NoTokCall EXCEPT !.polled = TRUE]]
       ELSE UNCHANGED <<tokNext, tok_sessions, tokCalls>>
    /\ tokRet' = NoRet
    /\ AppUnchanged

\* ---- validateAndRefreshSession up to its first return or its update: the
\* select of the active row, then the test on expires_at and last_activity.
VrsRead(sessionToken, ok) ==
    /\ tokCalls[sessionToken].pc = "idle"
    /\ IF ~ok
       THEN /\ tokRet' = Ret("validateAndRefreshSession", "error")
            /\ UNCHANGED tokCalls
       ELSE IF ~ActiveRow(tok_sessions, sessionToken)
       THEN /\ tokRet' = Ret("validateAndRefreshSession", "Session not found or inactive")
            /\ tokCalls' = [tokCalls EXCEPT ![sessionToken].polled = TRUE]
       ELSE /\ tokRet' = NoRet
            /\ tokCalls' = [tokCalls EXCEPT
                  ![sessionToken].pc =
                      IF Lapsed(tok_sessions[sessionToken], now)
                      THEN "deactivating" ELSE "refreshing"]
    /\ UNCHANGED <<tok_sessions, tokNext>>
    /\ AppUnchanged

\* ---- its update of an expired session, whose error is not looked at, and
\* the return of "Session expired".
VrsDeactivate(sessionToken, ok) ==
    /\ tokCalls[sessionToken].pc = "deactivating"
    /\ tok_sessions' = IF ok THEN DeactivateUpdate(tok_sessions, sessionToken)
                       ELSE tok_sessions
    /\ tokCalls' = [tokCalls EXCEPT ![sessionToken].pc = "idle",
                                    ![sessionToken].polled = TRUE]
    /\ tokRet' = Ret("validateAndRefreshSession", "Session expired")
    /\ UNCHANGED tokNext
    /\ AppUnchanged

\* ---- its refresh of a valid session; an updateError is thrown and caught:
\* success false.
VrsRefresh(sessionToken, ok) ==
    /\ tokCalls[sessionToken].pc = "refreshing"
    /\ tok_sessions' = IF ok THEN RefreshUpdate(tok_sessions, sessionToken, now)
                       ELSE tok_sessions
    /\ tokCalls' = [tokCalls EXCEPT ![sessionToken].pc = "idle",
                                    ![sessionToken].polled = ok]
    /\ tokRet' = Ret("validateAndRefreshSession", IF ok THEN "success" ELSE "error")
    /\ UNCHANGED tokNext
    /\ AppUnchanged

\* ---- deactivateSession (logout): the update on the store.
DeactivateSession(sessionToken, ok) ==
    /\ tok_sessions' = IF ok THEN DeactivateUpdate(tok_sessions, sessionToken)
                       ELSE tok_sessions
    /\ tokRet' = NoRet
    /\ UNCHANGED <<tokNext, tokCalls>>
    /\ AppUnchanged

\* ---- deactivateAllUserSessions: "Used when Device 2 logs in to force
\* logout Device 1".
DeactivateAllUserSessions(userId, ok) ==
    /\ tok_sessions' = IF ok THEN deactivate_all_user_sessions(tok_sessions, userId)
                       ELSE tok_sessions
    /\ tokRet' = NoRet
    /\ UNCHANGED <<tokNext, tokCalls>>
    /\ AppUnchanged

\* ---- cleanupExpiredSessions, which the SessionValidator of part_004 calls
\* after every validation that succeeded.
CleanupExpiredSessions(ok) ==
    /\ tok_sessions' = IF ok THEN cleanup_expired_sessions(tok_sessions, now)
                       ELSE tok_sessions
    /\ tokRet' = NoRet
    /\ UNCHANGED <<tokNext, tokCalls>>
    /\ AppUnchanged

\* ---- the clock of this library, ten minutes per step; the store answers
\* a call that is under way before the clock moves.
AppTick ==
    /\ \A k \in Tokens : tokCalls[k].pc = "idle"
    /\ TickTenMinutes

\* ----------------------------------------------------------- API routes
\* supabase.auth.getUser() gave no user.
NoUser == "none"
AnyCaller == Users \cup {NoUser}

\* What a request's session_id cookie can hold: an id a login response has
\* set (the route sets the cookie after createUserSession has returned), an
\* id naming no row, or nothing (cookieStore.get('session_id')?.value is
\* undefined).
IssuedCookies == {NoSession} \cup {s \in 1..nextId : calls[s].pc = "returned"}
AnyCookie == IssuedCookies \cup {NULL}

\* A route's response: its HTTP status, the revoked flag and reason of its
\* body, and what its message tells the user: "elsewhere" (logged in from
\* another device), "expired" (session expired, log in again), "not_found"
\* (session not found), "login" (please log in) or "none"; whether it
\* deletes the session_id cookie and the 'sb-' auth cookies (cleared); the
\* path a redirect sends the browser to (location); and whether the request
\* it answers was the one a forced-logout redirect before it sent the
\* browser to (followed).
Resp(ep, status, revoked, reason, notice) ==
    [ep |-> ep, status |-> status, revoked |-> revoked,
     reason |-> reason, notice |-> notice, cleared |-> FALSE,
     location |-> "-", followed |-> FALSE]
\* NextResponse.redirect(url) with url.pathname = path
Redirecting(r, path) == [r EXCEPT !.location = path]
\* response.cookies.delete('session_id') and of every 'sb-' cookie
Clearing(r) == [r EXCEPT !.cleared = TRUE]
NoResp == Resp("none", 0, FALSE, "-", "none")

NoHeartbeat == [pc |-> "idle", sid |-> NULL]

\* message of validateSession's result: 'Session not found' with
\* 'not_found', 'Your session ended because you logged in from another
\* device.' with 'revoked'.
ValidateNotice(reason) ==
    IF reason = "revoked" THEN "elsewhere"
    ELSE IF reason = "not_found" THEN "not_found"
    ELSE "none"

\* ---- POST /api/auth/heartbeat up to validateSession: 401 without a user,
\* 401 revoked without a cookie, 401 revoked with validateSession's reason
\* and message when the session is not valid; otherwise on to the activity
\* update.
HbValidate(userId, sessionId, ok) ==
    /\ hb.pc = "idle"
    /\ IF userId = NoUser
       THEN /\ resp' = Resp("heartbeat", 401, FALSE, "-", "none")
            /\ hb' = hb
       ELSE IF sessionId = NULL
       THEN /\ resp' = Resp("heartbeat", 401, TRUE, "-", "expired")
            /\ hb' = hb
       ELSE LET reason == ValidateReason(user_sessions, userId, sessionId, ok, now)
            IN  IF reason # "valid"
                THEN /\ resp' = Resp("heartbeat", 401, TRUE, reason,
                                     ValidateNotice(reason))
                     /\ hb' = hb
                ELSE /\ resp' = NoResp
                     /\ hb' = [pc |-> "validated", sid |-> sessionId]
    /\ UNCHANGED <<cookieVars, now, tokenVars, mon>>

\* ---- POST /api/auth/heartbeat, second round trip: updateSessionActivity,
\* whose result is logged and not acted on, then the success response.
HbUpdate(ok) ==
    /\ hb.pc = "validated"
    /\ user_sessions' =
          IF ok THEN update_session_activity(user_sessions, hb.sid, now)
          ELSE user_sessions
    /\ resp' = Resp("heartbeat", 200, FALSE, "valid", "none")
    /\ hb' = NoHeartbeat
    /\ UNCHANGED <<nextId, calls, ret, now, tokenVars, mon>>

\* ---- POST /api/auth/logout. revokeSession runs when there are a user and a
\* cookie, and its failure is logged only; auth.signOut() runs when there is
\* a user, and the error it returns is logged only. An exception escaping
\* the try block (signOut "throws") reaches the catch, which answers 500
\* with success: false; the revocation before it is not undone.
SignOutOutcomes == {"ok", "error", "throws"}

LogoutStatus(userId, signOut) ==
    IF userId # NoUser /\ signOut = "throws" THEN 500 ELSE 200

LogoutPost(userId, sessionId, ok, signOut) ==
    /\ user_sessions' =
          IF userId # NoUser /\ sessionId # NULL /\ ok
          THEN RevokeSessionUpdate(user_sessions, userId, sessionId, now)
          ELSE user_sessions
    /\ resp' = Clearing(Resp("logout", LogoutStatus(userId, signOut),
                              FALSE, "-", "none"))
    /\ UNCHANGED <<nextId, calls, ret, now, tokenVars, hb, mon>>

\* The login route's answer as it would be if it refused a user who still
\* has an active session besides the one createUserSession has just inserted.
LoginStatus_refusing_second(tbl, userId, success) ==
    LET active == {s \in DOMAIN tbl : tbl[s].user_id = userId /\ tbl[s].status = "active"}
        own    == IF success THEN 1 ELSE 0
    IN  IF Cardinality(active) > own THEN 409 ELSE 200

\* The login route's answer once signInWithPassword has succeeded:
\* sessionResult.success is logged when false and the response is
\* { success: true, sessionId } either way.
LoginStatus(tbl, userId, success) ==
    200

\* ---- POST /api/auth/single-session-login with credentials that do not
\* verify: 401 before any session is made.
LoginRejected ==
    /\ resp' = Resp("login", 401, FALSE, "-", "none")
    /\ UNCHANGED <<cookieVars, now, tokenVars, hb, mon>>

\* ---- POST /api/auth/single-session-login with credentials that verify, up
\* to createUserSession's insert. When the insert fails the route sets the
\* cookie and answers at once; the cookie's id then names no row.
LoginInsert(userId, ok) ==
    /\ nextId < MaxSessions
    /\ IF ok
       THEN /\ nextId' = nextId + 1
            /\ user_sessions' = InsertSession(user_sessions, userId, nextId + 1, now)
            /\ calls' = [calls EXCEPT ![nextId + 1] = [user |-> userId, pc |-> "inserted"]]
            /\ resp' = NoResp
       ELSE /\ UNCHANGED <<nextId, user_sessions, calls>>
            /\ resp' = Resp("login", LoginStatus(user_sessions, userId, FALSE),
                            FALSE, "-", "none")
    /\ UNCHANGED <<ret, now, tokenVars, hb, mon>>

\* ---- the same request from createUserSession's revoke_other_sessions RPC
\* to the response.
LoginRevoke(sessionId, ok) ==
    /\ calls[sessionId].pc = "inserted"
    /\ user_sessions' =
          IF ok THEN revoke_other_sessions(user_sessions, calls[sessionId].user, sessionId, now)
          ELSE user_sessions
    /\ calls' = [calls EXCEPT ![sessionId] = [user |-> "-", pc |-> "returned"]]
    /\ resp' = Resp("login",
                    LoginStatus(user_sessions, calls[sessionId].user, TRUE),
                    FALSE, "-", "none")
    /\ UNCHANGED <<nextId, ret, now, tokenVars, hb, mon>>

\* is_session_valid as it would be without its user_id filter.
is_session_valid_any_user(tbl, p_user_id, p_session_id) ==
    /\ p_session_id \in DOMAIN tbl
    /\ tbl[p_session_id].status = "active"

\* SELECT EXISTS(... WHERE user_id = p_user_id AND session_id = p_session_id
\*   AND status = 'active')
is_session_valid(tbl, p_user_id, p_session_id) ==
    /\ p_session_id \in DOMAIN tbl
    /\ tbl[p_session_id].user_id = p_user_id
    /\ tbl[p_session_id].status = "active"

\* The paths a request can ask for: the home page, a page under /protected,
\* and another page of the application.
Paths == {"/", "/protected", "/blogs"}

\* isPublicRoute as it would be without pathname === "/".
isPublicRoute_without_home(path) ==
    path = "/terms"

\* isPublicRoute: pathname === "/" or one of the public prefixes
isPublicRoute(path) ==
    path = "/"

\* createLogoutResponse: a redirect to "/" with session_revoked=true and the
\* message, which deletes the session_id cookie and every 'sb-' cookie.
createLogoutResponse(notice) ==
    Clearing(Redirecting(Resp("middleware", 307, TRUE, "-", notice), "/"))

\* The end of updateSession: a request for a page under /protected without
\* a user is redirected to "/" with 'Please log in to access this page';
\* every other request proceeds.
PassOrLogin(userId, path) ==
    IF path = "/protected" /\ userId = NoUser
    THEN Redirecting(Resp("middleware", 307, FALSE, "-", "login"), "/")
    ELSE Resp("middleware", 200, FALSE, "-", "none")

\* ---- updateSession (middleware). For a user on a route that is not
\* public: without a cookie the request is redirected with 'Session expired.
\* Please log in again.'; when rpc('is_session_valid') returns an error or
\* false it is redirected with 'Session expired. You have been logged in from
\* another device.'; when the rpc throws the request goes on.
RpcOutcomes == {"ok", "error", "throws"}

Middleware(userId, sessionId, rpc, path) ==
    /\ resp' =
          [(IF userId = NoUser \/ isPublicRoute(path) THEN PassOrLogin(userId, path)
            ELSE IF sessionId = NULL THEN createLogoutResponse("expired")
            ELSE IF rpc = "throws" THEN PassOrLogin(userId, path)
            ELSE IF rpc = "error" \/ ~is_session_valid(user_sessions, userId, sessionId)
            THEN createLogoutResponse("elsewhere")
            ELSE PassOrLogin(userId, path))
           EXCEPT !.followed =
              (resp.status = 307 /\ resp.revoked /\ resp.location = path)]
    /\ UNCHANGED <<cookieVars, now, tokenVars, hb, mon>>

InitEndpoints ==
    /\ hb = NoHeartbeat
    /\ resp = NoResp

\* -------------------------------------------------- client monitors
\* mon holds the three client-side monitors of one browser tab.
\*  useSessionMonitor: phase of the component using the hook, isMonitoringRef,
\*   whether heartbeatIntervalRef and sessionCheckIntervalRef hold a running
\*   interval, the validateSession calls waiting for auth.getUser() (checks),
\*   the heartbeat requests waiting for their response (probes), what the
\*   last heartbeat came back with (answered), and how often
\*   handleSessionRevoked was entered (logouts).
\*  SessionValidator of components/session-validator.tsx: validationTimerRef,
\*   the token in localStorage (sessionToken), the isChecking state, the
\*   value of isChecking its interval callback closed over (the effect runs
\*   once, with the first render's callback), its validateSession calls in
\*   flight (svProbes), when it was mounted and when its interval last ran,
\*   lastActivityRef, when the debounce timer of activityTimerRef is due,
\*   the reason forceLogout was last called with (svForced), the token its
\*   effect read (svToken), whether its realtime subscription stands
\*   (svSubscribed) and has no event left to deliver (svNotified), the forceLogout
\*   runs waiting for signOut (svLoggingOut), when idleWarningTimerRef is
\*   due, the showIdleWarning state, and when the last activity event reached
\*   the page (svEventAt).
\*  LogoutButton of components/logout-button.tsx: where handleLogout stands
\*   (lbPc).
\*  SessionValidator of part_004: intervalRef, isValidatingRef, and its
\*   validateSession runs in flight (pvProbes).
MaxInFlight == 2
MaxLogouts == 2
MaxQuarterMinutes == 5

\* What a heartbeat request comes back with: 200; 401 with revoked: true;
\* 401 with revoked: false; 500; or fetch rejects.
HeartbeatOutcomes == {"ok", "revoked", "unauthenticated", "error", "network"}

\* sendHeartbeat's test as it would be if every failed heartbeat counted as
\* a revocation.
RevokedAnswer_any_failure(outcome) ==
    outcome # "ok"

\* sendHeartbeat's test: response.status === 401 && data.revoked
RevokedAnswer(outcome) ==
    outcome = "revoked"
\* What auth.getUser() comes back with in the hook's validateSession.
GetUserOutcomes == {"user", "none", "throws"}

MonUnchanged == UNCHANGED <<cookieVars, now, tokenVars, hb, resp>>

\* clearInterval on both refs and isMonitoringRef.current = false
Stopped(m) ==
    [m EXCEPT !.heartbeatIntervalRef = FALSE,
              !.sessionCheckIntervalRef = FALSE,
              !.isMonitoringRef = FALSE]

\* handleSessionRevoked: stops the intervals and starts performLogout.
handleSessionRevoked(m) ==
    [Stopped(m) EXCEPT !.logouts = m.logouts + 1]

\* sendHeartbeat up to its fetch: one more request in flight. Nothing is
\* consulted before the request is sent.
sendHeartbeat(m) ==
    [m EXCEPT !.probes = m.probes + 1]

\* validateSession up to its await of auth.getUser().
validateSession(m) ==
    [m EXCEPT !.checks = m.checks + 1]

\* ---- the hook's useEffect: startMonitoring (isMonitoringRef is false on a
\* fresh mount) makes the initial validateSession call and sets both
\* intervals; the visibilitychange listener is registered.
StartMonitoring ==
    /\ mon.phase = "unmounted"
    /\ mon' = validateSession([mon EXCEPT !.phase = "mounted",
                                          !.isMonitoringRef = TRUE,
                                          !.heartbeatIntervalRef = TRUE,
                                          !.sessionCheckIntervalRef = TRUE])
    /\ MonUnchanged

\* ---- the 30-second interval fires: sendHeartbeat().
HeartbeatTick ==
    /\ mon.heartbeatIntervalRef
    /\ mon.probes < MaxInFlight
    /\ mon' = sendHeartbeat(mon)
    /\ MonUnchanged

\* ---- the 60-second interval fires: validateSession().
SessionCheckTick ==
    /\ mon.sessionCheckIntervalRef
    /\ mon.checks < MaxInFlight
    /\ mon' = validateSession(mon)
    /\ MonUnchanged

\* ---- visibilitychange to 'visible': validateSession(). The listener is
\* removed by the effect's cleanup only.
VisibilityChange ==
    /\ mon.phase = "mounted"
    /\ mon.checks < MaxInFlight
    /\ mon' = validateSession(mon)
    /\ MonUnchanged

\* ---- auth.getUser() of a validateSession call returns: without a user the
\* intervals are cleared; with one the heartbeat is sent; an exception is
\* logged.
GetUserReturns(outcome) ==
    /\ mon.checks > 0
    /\ outcome = "user" => mon.probes < MaxInFlight
    /\ LET m == [mon EXCEPT !.checks = mon.checks - 1]
       IN  mon' = IF outcome = "user" THEN sendHeartbeat(m)
                  ELSE IF outcome = "none" THEN Stopped(m)
                  ELSE m
    /\ MonUnchanged

\* ---- a heartbeat request returns: handleSessionRevoked on 401 with
\* revoked, nothing otherwise.
HeartbeatReturns(outcome) ==
    /\ mon.probes > 0
    /\ RevokedAnswer(outcome) => mon.logouts < MaxLogouts
    /\ LET m == [mon EXCEPT !.probes = mon.probes - 1, !.answered = outcome]
       IN  mon' = IF RevokedAnswer(outcome) THEN handleSessionRevoked(m) ELSE m
    /\ MonUnchanged

\* ---- the effect's cleanup: stopMonitoring and removeEventListener.
\* Requests in flight are not aborted.
Unmount ==
    /\ mon.phase = "mounted"
    /\ mon' = [Stopped(mon) EXCEPT !.phase = "gone"]
    /\ MonUnchanged

ACTIVITY_DEBOUNCE_MS == 30000
VALIDATION_INTERVAL_MS == 60000
\* const IDLE_WARNING_TIME = 18 * 60 * 1000
IDLE_WARNING_TIME == 18 * 60 * 1000
QuarterMinuteMs == 15000
SixMinutesMs == 6 * 60 * 1000
MaxSixMinutes == 4

REALTIME_REASON == "Your session was terminated on another device"

\* The frame of a step of components/session-validator.tsx that also
\* reaches the library's table.
SvUnchanged == UNCHANGED <<cookieVars, now, tokNext, tokCalls, tokRet, hb, resp>>

\* ---- createSession of the library called in this tab: the insert with its
\* trigger, then storeSessionToken(sessionToken). A failed insert stores
\* nothing. The login is made on a page where no SessionValidator runs and
\* no logout is under way.
TabCreateSession(userId, ok) ==
    /\ tokNext < MaxTokens
    /\ mon.sessionToken = NULL
    /\ ~mon.validationTimerRef
    /\ mon.svProbes = 0
    /\ mon.svLoggingOut = 0
    /\ mon.lbPc = "idle"
    /\ LET sessionToken == tokNext + 1 IN
       IF ok
       THEN /\ tokNext' = sessionToken
            /\ tok_sessions' = InsertTokSession(tok_sessions, userId, sessionToken, now)
            /\ tokCalls' = [tokCalls EXCEPT ![sessionToken] =
                              [NoTokCall EXCEPT !.polled = TRUE]]
            /\ mon' = [mon EXCEPT !.sessionToken = sessionToken]
       ELSE UNCHANGED <<tokNext, tok_sessions, tokCalls, mon>>
    /\ tokRet' = NoRet
    /\ UNCHANGED <<cookieVars, now, hb, resp>>

\* validateCurrentSession of components/session-validator.tsx as called with
\* isChecking read as checking: returns at once when checking or without a
\* token, otherwise setIsChecking(true) and the validateSession request.
validateCurrentSession(m, checking) ==
    IF checking \/ m.sessionToken = NULL THEN m
    ELSE [m EXCEPT !.isChecking = TRUE, !.svProbes = m.svProbes + 1]

\* ---- its useEffect (dependencies []), which returns at once without a
\* token: lastActivityRef is set, the activity listeners are registered,
\* setInterval(validateCurrentSession) is given the callback of this render,
\* which closed over isChecking as it is now, the idle warning timer is
\* set, the realtime subscription is made for the token, and
\* validateCurrentSession() is called. The component mounts on a page that
\* has just loaded. The channel has an event to deliver only for an update
\* made after the subscription: none when the row is not active by then.
SvMount ==
    /\ mon.sessionToken # NULL
    /\ ~mon.validationTimerRef
    /\ mon.svProbes = 0
    /\ mon.svLoggingOut = 0
    /\ mon.lbPc = "idle"
    /\ mon' = validateCurrentSession(
                  [mon EXCEPT !.validationTimerRef = TRUE,
                              !.isCheckingClosed = mon.isChecking,
                              !.svMountedAt = now,
                              !.svTickedAt = NULL,
                              !.lastActivityRef = now,
                              !.activeSince = now,
                              !.svToken = mon.sessionToken,
                              !.svSubscribed = TRUE,
                              !.svNotified =
                                  ~getActiveSession(tok_sessions, mon.sessionToken),
                              !.idleWarningTimerRef = now + IDLE_WARNING_TIME,
                              !.showIdleWarning = FALSE,
                              !.svEventAt = NULL],
                  mon.isChecking)
    /\ MonUnchanged

\* The validation interval has run a whole number of periods since the mount
\* and its callback has not run at this instant.
IntervalDue ==
    /\ mon.validationTimerRef
    /\ now > mon.svMountedAt
    /\ (now - mon.svMountedAt) % VALIDATION_INTERVAL_MS = 0
    /\ mon.svTickedAt # now

\* ---- the interval fires: the callback reads the isChecking it closed
\* over.
SvTick ==
    /\ mon.validationTimerRef
    /\ mon.svProbes < MaxInFlight
    /\ mon' = [validateCurrentSession(mon, mon.isCheckingClosed)
                 EXCEPT !.svTickedAt = now]
    /\ MonUnchanged

\* forceLogout up to its first await, with a reason that contains 'expired'
\* or 'terminated', as every reason of validateSession and the realtime
\* callback's does: clearSessionToken(), then supabase.auth.signOut() is
\* called and awaited. Nothing in it tells whether a forceLogout is already
\* under way.
forceLogout(m, reason) ==
    [m EXCEPT !.sessionToken = NULL,
              !.svLoggingOut = m.svLoggingOut + 1,
              !.svForced = reason]

\* The page is left (window.location.href = "/"): its timers, listeners,
\* subscription, pending requests and component state are gone;
\* localStorage stays.
Unloaded(m) ==
    [m EXCEPT !.validationTimerRef = FALSE,
              !.activityTimerRef = NULL,
              !.idleWarningTimerRef = NULL,
              !.showIdleWarning = FALSE,
              !.isChecking = FALSE,
              !.svProbes = 0,
              !.svSubscribed = FALSE,
              !.svLoggingOut = 0,
              !.lbPc = "idle"]

\* ---- a validateSession request of the component is answered. The library
\* reads the active row of the token (a failed read counts as no row),
\* writes 'expired' when the row is idle too long, and the component calls
\* forceLogout on an invalid result; setIsChecking(false) in finally, which
\* an invalid result reaches only after forceLogout.
SvReturns(ok) ==
    /\ mon.svProbes > 0
    /\ LET k     == mon.svToken
           found == ok /\ getActiveSession(tok_sessions, k)
           idle  == found /\ isSessionExpired(tok_sessions[k].last_activity_at, now)
           m     == [mon EXCEPT !.svProbes = mon.svProbes - 1]
       IN  /\ (~found \/ idle) => mon.svLoggingOut < MaxLogouts
           /\ tok_sessions' = IF idle THEN ExpireUpdate(tok_sessions, k, now)
                              ELSE tok_sessions
           /\ mon' = IF ~found THEN forceLogout(m, NOT_FOUND_REASON)
                      ELSE IF idle THEN forceLogout(m, EXPIRED_REASON)
                      ELSE [m EXCEPT !.isChecking = FALSE]
    /\ SvUnchanged

\* ---- the realtime channel delivers the UPDATE of the subscribed row with
\* a status other than 'active': the callback given to
\* subscribeToSessionChanges calls forceLogout.
SvRealtimeEvent ==
    /\ mon.svSubscribed
    /\ ~mon.svNotified
    /\ mon.svToken \in DOMAIN tok_sessions
    /\ tok_sessions[mon.svToken].status # "active"
    /\ mon.svLoggingOut < MaxLogouts
    /\ mon' = forceLogout([mon EXCEPT !.svNotified = TRUE], REALTIME_REASON)
    /\ MonUnchanged

\* ---- the signOut that a forceLogout awaits comes back: the alert with the
\* reason, then window.location.href = "/".
SvSignOutReturns ==
    /\ mon.svLoggingOut > 0
    /\ mon' = Unloaded(mon)
    /\ MonUnchanged

\* updateActivity's body as it would be if it left the idle warning timer
\* alone.
Touched_keeps_idle_timer(m, t) ==
    IF m.sessionToken = NULL THEN m
    ELSE [m EXCEPT !.showIdleWarning = FALSE,
                   !.lastActivityRef = t,
                   !.activityTimerRef = t + ACTIVITY_DEBOUNCE_MS]

\* updateActivity's body with a token in localStorage:
\* setShowIdleWarning(false), lastActivityRef, the debounce timer replaced by
\* one due ACTIVITY_DEBOUNCE_MS from now and the idle warning timer by one
\* due IDLE_WARNING_TIME from now. Without a token it returns at once.
Touched(m, t) ==
    IF m.sessionToken = NULL THEN m
    ELSE [m EXCEPT !.showIdleWarning = FALSE,
                   !.lastActivityRef = t,
                   !.activityTimerRef = t + ACTIVITY_DEBOUNCE_MS,
                   !.idleWarningTimerRef = t + IDLE_WARNING_TIME,
                   !.activeSince =
                       IF t - m.lastActivityRef >= ACTIVITY_DEBOUNCE_MS
                       THEN t ELSE m.activeSince]

\* ---- an activity event (mousemove, keypress, ...) reaches the listener:
\* updateActivity. activeSince is when the present run of events, with gaps
\* shorter than the debounce time, began.
updateActivity ==
    /\ mon.validationTimerRef
    /\ mon' = [Touched(mon, now) EXCEPT !.svEventAt = now]
    /\ MonUnchanged

\* ---- the 'I'm still here' button, rendered while showIdleWarning: its
\* click runs updateActivity() and setShowIdleWarning(false).
StillHere ==
    /\ mon.validationTimerRef
    /\ mon.showIdleWarning
    /\ mon' = [Touched(mon, now) EXCEPT !.svEventAt = now,
                                        !.showIdleWarning = FALSE]
    /\ MonUnchanged

\* ---- the idle warning timer fires: setShowIdleWarning(true).
IdleWarningTimerFires ==
    /\ mon.idleWarningTimerRef = now
    /\ mon' = [mon EXCEPT !.showIdleWarning = TRUE,
                          !.idleWarningTimerRef = NULL]
    /\ MonUnchanged

\* ---- the debounce timer fires: updateSessionActivity(sessionToken) with
\* the token updateActivity read, whose failure is logged.
ActivityTimerFires(ok) ==
    /\ mon.activityTimerRef = now
    /\ tok_sessions' = IF ok THEN ActivityUpdate(tok_sessions, mon.svToken, now)
                       ELSE tok_sessions
    /\ mon' = [mon EXCEPT !.activityTimerRef = NULL]
    /\ SvUnchanged

\* ---- the effect's cleanup: the listeners are removed, the three timers
\* cleared, the realtime channel unsubscribed.
SvCleanup ==
    /\ mon.validationTimerRef
    /\ mon' = [mon EXCEPT !.validationTimerRef = FALSE,
                          !.activityTimerRef = NULL,
                          !.idleWarningTimerRef = NULL,
                          !.showIdleWarning = FALSE,
                          !.svSubscribed = FALSE]
    /\ MonUnchanged

\* ---- handleLogout of the logout button up to its first await:
\* terminateSession(sessionToken) when localStorage holds a token, otherwise
\* supabase.auth.signOut().
handleLogout ==
    /\ mon.lbPc = "idle"
    /\ mon.svLoggingOut = 0
    /\ mon' = [mon EXCEPT !.lbPc = IF mon.sessionToken # NULL
                                   THEN "terminating" ELSE "signingOut"]
    /\ MonUnchanged

\* ---- terminateSession comes back to handleLogout: the update of the
\* active row and clearSessionToken() when the store took it; on a store
\* error nothing is written, the token stays, and the failure is logged.
\* Then signOut is called.
LbTerminateReturns(ok) ==
    /\ mon.lbPc = "terminating"
    /\ tok_sessions' =
          IF ok /\ mon.sessionToken # NULL
          THEN TerminateUpdate(tok_sessions, mon.sessionToken, now)
          ELSE tok_sessions
    /\ mon' = [mon EXCEPT !.lbPc = "signingOut",
                          !.sessionToken = IF ok THEN NULL ELSE mon.sessionToken]
    /\ SvUnchanged

\* ---- signOut comes back to handleLogout: window.location.href = "/". When
\* it throws, the catch block logs and the page stays.
LbSignOutReturns(ok) ==
    /\ mon.lbPc = "signingOut"
    /\ mon' = IF ok THEN Unloaded(mon) ELSE [mon EXCEPT !.lbPc = "idle"]
    /\ MonUnchanged

\* ---- the browser's clock, a quarter of a minute per step. A timer that
\* is due runs before time moves on.
TickQuarterMinute ==
    /\ now < MaxQuarterMinutes * QuarterMinuteMs
    /\ ~IntervalDue
    /\ mon.activityTimerRef # now
    /\ mon.idleWarningTimerRef # now
    /\ now' = now + QuarterMinuteMs
    /\ UNCHANGED <<cookieVars, tokenVars, endpointVars>>

\* ---- the browser's clock, six minutes per step, for the idle warning.
TickSixMinutes ==
    /\ now < MaxSixMinutes * SixMinutesMs
    /\ mon.idleWarningTimerRef # now
    /\ now' = now + SixMinutesMs
    /\ UNCHANGED <<cookieVars, tokenVars, endpointVars>>

\* SessionValidator.validateSession of part_004: returns at once while
\* isValidatingRef.current, otherwise sets it and starts its run.
pvValidateSession(m) ==
    IF m.isValidatingRef THEN m
    ELSE [m EXCEPT !.isValidatingRef = TRUE, !.pvProbes = m.pvProbes + 1]

\* ---- its useEffect on a protected route: validateSession() and
\* setInterval(validateSession, 2 minutes).
PvMount ==
    /\ ~mon.intervalRef
    /\ mon' = pvValidateSession([mon EXCEPT !.intervalRef = TRUE])
    /\ MonUnchanged

\* ---- the interval fires.
PvTick ==
    /\ mon.intervalRef
    /\ mon.pvProbes < MaxInFlight
    /\ mon' = pvValidateSession(mon)
    /\ MonUnchanged

\* ---- a run ends: isValidatingRef.current = false in finally.
PvReturns ==
    /\ mon.pvProbes > 0
    /\ mon' = [mon EXCEPT !.pvProbes = mon.pvProbes - 1,
                          !.isValidatingRef = FALSE]
    /\ MonUnchanged

\* ---- the effect's cleanup (pathname changes or unmount): clearInterval.
PvCleanup ==
    /\ mon.intervalRef
    /\ mon' = [mon EXCEPT !.intervalRef = FALSE]
    /\ MonUnchanged

InitMonitor ==
    mon = [phase |-> "unmounted", isMonitoringRef |-> FALSE,
           heartbeatIntervalRef |-> FALSE, sessionCheckIntervalRef |-> FALSE,
           checks |-> 0, probes |-> 0, logouts |-> 0, answered |-> "-",
           sessionToken |-> NULL,
           validationTimerRef |-> FALSE, isChecking |-> FALSE,
           isCheckingClosed |-> FALSE, svProbes |-> 0,
           svMountedAt |-> NULL, svTickedAt |-> NULL,
           lastActivityRef |-> NULL, activityTimerRef |-> NULL,
           activeSince |-> NULL, svForced |-> "-",
           svToken |-> NULL, svSubscribed |-> FALSE, svNotified |-> FALSE,
           svLoggingOut |-> 0, idleWarningTimerRef |-> NULL,
           showIdleWarning |-> FALSE, svEventAt |-> NULL, lbPc |-> "idle",
           intervalRef |-> FALSE, isValidatingRef |-> FALSE, pvProbes |-> 0]

Init == InitCookie /\ InitToken /\ InitEndpoints /\ InitMonitor

\* A store round trip that fails leaves the same state whoever asked and
\* whatever was asked about: each failing call is taken once, for AnyUser and
\* NoSession. CreateRevoke's failure differs by the call it ends.
AnyUser == CHOOSE u \in Users : TRUE

Next ==
    \/ \E u \in Users : CreateInsert(u, TRUE)
    \/ CreateInsert(AnyUser, FALSE)
    \/ \E s \in SessionIds, ok \in BOOLEAN : CreateRevoke(s, ok)
    \/ \E u \in Users, s \in Presented : ValidateSession(u, s, TRUE)
    \/ ValidateSession(AnyUser, NoSession, FALSE)
    \/ \E s \in Presented : UpdateSessionActivity(s, TRUE)
    \/ UpdateSessionActivity(NoSession, FALSE)
    \/ \E u \in Users, s \in Presented : RevokeSession(u, s, TRUE)
    \/ RevokeSession(AnyUser, NoSession, FALSE)
    \/ \E u \in Users : RevokeAllUserSessions(u, TRUE)
    \/ RevokeAllUserSessions(AnyUser, FALSE)
    \/ \E d \in 0..MaxDays : CleanupOldSessions(d)
    \/ TickDay

Spec == Init /\ [][Next]_vars

\* ---- Logins only, racing freely: every interleaving of the insert and the
\* revoke_other_sessions steps of the createUserSession calls.
NextRace ==
    \/ \E u \in Users : CreateInsert(u, TRUE)
    \/ CreateInsert(AnyUser, FALSE)
    \/ \E s \in SessionIds, ok \in BOOLEAN : CreateRevoke(s, ok)
    \/ \E u \in Users, s \in Presented : ValidateSession(u, s, TRUE)
    \/ ValidateSession(AnyUser, NoSession, FALSE)
    \/ TickDay

SpecRace == Init /\ [][NextRace]_vars

\* ---- Logins only, one after another: a createUserSession call starts only
\* when no other call is between its insert and its revoke.
NoCallInFlight == \A s \in SessionIds : calls[s].pc # "inserted"

NextSequential ==
    \/ \E u \in Users : NoCallInFlight /\ CreateInsert(u, TRUE)
    \/ NoCallInFlight /\ CreateInsert(AnyUser, FALSE)
    \/ \E s \in SessionIds, ok \in BOOLEAN : CreateRevoke(s, ok)
    \/ \E u \in Users, s \in Presented : ValidateSession(u, s, TRUE)
    \/ ValidateSession(AnyUser, NoSession, FALSE)
    \/ TickDay

SpecSequential == Init /\ [][NextSequential]_vars

NextToken ==
    \/ \E u \in Users, ok \in BOOLEAN : LibCreateSession(u, ok)
    \/ \E k \in Tokens, ok \in BOOLEAN : LibValidateRead(k, ok)
    \/ \E k \in Tokens, ok \in BOOLEAN : LibValidateExpire(k, ok)
    \/ \E k \in Tokens, ok \in BOOLEAN : LibUpdateSessionActivity(k, ok)
    \/ \E k \in Tokens, ok \in BOOLEAN : LibTerminateSession(k, ok)
    \/ TickTenMinutes

SpecToken == Init /\ [][NextToken]_vars

\* ---- One session per user, never terminated and never superseded, polled
\* by validateSession alone (SessionValidator's setInterval): the clock moves
\* only when every stored session has been validated since it last moved,
\* so two consecutive validations of a session are ten minutes apart at most.
\* The store answers every insert and every lookup; the expiry write, whose
\* error validateSession does not look at, may still fail.
NotSuperseding(userId) ==
    \A k \in DOMAIN tok_sessions : tok_sessions[k].user_id # userId

AllPolled ==
    \A k \in DOMAIN tok_sessions :
        tokCalls[k].polled /\ tokCalls[k].pc = "idle"

NextPolling ==
    \/ \E u \in Users : NotSuperseding(u) /\ LibCreateSession(u, TRUE)
    \/ \E k \in DOMAIN tok_sessions : LibValidateRead(k, TRUE)
    \/ \E k \in Tokens, ok \in BOOLEAN : LibValidateExpire(k, ok)
    \/ AllPolled /\ TickTenMinutes

SpecPolling == Init /\ [][NextPolling]_vars

\* ---- Logins and heartbeats: the two round trips of the heartbeat route
\* interleaved with the round trips of the login route.
NextHeartbeat ==
    \/ \E u \in Users, ok \in BOOLEAN : LoginInsert(u, ok)
    \/ \E s \in SessionIds, ok \in BOOLEAN : LoginRevoke(s, ok)
    \/ \E u \in Users, s \in IssuedCookies, ok \in BOOLEAN : HbValidate(u, s, ok)
    \/ HbValidate(NoUser, NULL, TRUE)
    \/ HbValidate(AnyUser, NULL, TRUE)
    \/ \E ok \in BOOLEAN : HbUpdate(ok)
    \/ TickDay

SpecHeartbeat == Init /\ [][NextHeartbeat]_vars

\* ---- Logins and logouts.
NextLogout ==
    \/ LoginRejected
    \/ \E u \in Users, ok \in BOOLEAN : LoginInsert(u, ok)
    \/ \E s \in SessionIds, ok \in BOOLEAN : LoginRevoke(s, ok)
    \/ \E u \in Users, s \in IssuedCookies, ok \in BOOLEAN, so \in SignOutOutcomes :
          LogoutPost(u, s, ok, so)
    \/ \E so \in SignOutOutcomes : LogoutPost(AnyUser, NULL, TRUE, so)
    \/ LogoutPost(NoUser, NoSession, TRUE, "ok")
    \/ TickDay

SpecLogout == Init /\ [][NextLogout]_vars

\* ---- Logins, logouts and page requests through the middleware.
NextMiddleware ==
    \/ \E u \in Users, ok \in BOOLEAN : LoginInsert(u, ok)
    \/ \E s \in SessionIds, ok \in BOOLEAN : LoginRevoke(s, ok)
    \/ \E u \in Users, s \in IssuedCookies : LogoutPost(u, s, TRUE, "ok")
    \/ \E u \in AnyCaller, s \in AnyCookie, rpc \in RpcOutcomes, path \in Paths :
          Middleware(u, s, rpc, path)

SpecMiddleware == Init /\ [][NextMiddleware]_vars

\* The client monitors of one tab, each against responses of every kind.
NextMonitor ==
    \/ StartMonitoring
    \/ HeartbeatTick
    \/ SessionCheckTick
    \/ VisibilityChange
    \/ \E o \in GetUserOutcomes : GetUserReturns(o)
    \/ \E o \in HeartbeatOutcomes : HeartbeatReturns(o)
    \/ Unmount
    \/ TabCreateSession(AnyUser, TRUE)
    \/ LibCreateSession(AnyUser, TRUE)
    \/ SvMount
    \/ SvTick
    \/ \E ok \in BOOLEAN : SvReturns(ok)
    \/ PvMount
    \/ PvTick
    \/ PvReturns
    \/ PvCleanup

SpecMonitor == Init /\ [][NextMonitor]_vars

\* components/session-validator.tsx in one tab against the library's table
\* and the clock, with logins of the same user on other devices and a
\* logout in another tab of this browser. The store
\* is reachable: it answers a validateSession request before a quarter of a
\* minute has passed. The realtime channel delivers nothing.
NextValidator ==
    \/ \E ok \in BOOLEAN : TabCreateSession(AnyUser, ok)
    \/ LibCreateSession(AnyUser, TRUE)
    \/ mon.sessionToken # NULL /\ LibTerminateSession(mon.sessionToken, TRUE)
    \/ SvMount
    \/ SvTick /\ IntervalDue
    \/ SvReturns(TRUE)
    \/ SvSignOutReturns
    \/ updateActivity
    \/ \E ok \in BOOLEAN : ActivityTimerFires(ok)
    \/ TickQuarterMinute /\ mon.svProbes = 0

SpecValidator == Init /\ [][NextValidator]_vars

\* components/session-validator.tsx and the logout button in one tab, over
\* the eighteen minutes of the idle warning: logins of the same user on
\* other devices, the realtime channel, store calls that fail, and a clock
\* of six-minute steps. The validation interval is left out: the validation
\* the mount starts stands for its runs.
NextIdle ==
    \/ TabCreateSession(AnyUser, TRUE)
    \/ LibCreateSession(AnyUser, TRUE)
    \/ SvMount
    \/ \E ok \in BOOLEAN : SvReturns(ok)
    \/ SvRealtimeEvent
    \/ SvSignOutReturns
    \/ updateActivity
    \/ StillHere
    \/ IdleWarningTimerFires
    \/ SvCleanup
    \/ handleLogout
    \/ \E ok \in BOOLEAN : LbTerminateReturns(ok)
    \/ \E ok \in BOOLEAN : LbSignOutReturns(ok)
    \/ TickSixMinutes

SpecIdle == Init /\ [][NextIdle]_vars

\* The ways a session of the tab ends, with no clock: the validator's
\* interval and requests, the realtime channel, the logout button, logins of
\* the same user on other devices, and store calls that fail.
NextTeardown ==
    \/ TabCreateSession(AnyUser, TRUE)
    \/ LibCreateSession(AnyUser, TRUE)
    \/ SvMount
    \/ SvTick
    \/ \E ok \in BOOLEAN : SvReturns(ok)
    \/ SvRealtimeEvent
    \/ SvSignOutReturns
    \/ SvCleanup
    \/ handleLogout
    \/ \E ok \in BOOLEAN : LbTerminateReturns(ok)
    \/ \E ok \in BOOLEAN : LbSignOutReturns(ok)

SpecTeardown == Init /\ [][NextTeardown]_vars

\* The is_active version of the library: logins, validations by the
\* SessionValidator of part_004 with the cleanup that follows them, logouts,
\* store calls that fail, and the clock.
NextSliding ==
    \/ \E u \in Users : AppCreateSession(u, TRUE)
    \/ AppCreateSession(AnyUser, FALSE)
    \/ \E k \in Tokens, ok \in BOOLEAN : VrsRead(k, ok)
    \/ \E k \in Tokens, ok \in BOOLEAN : VrsDeactivate(k, ok)
    \/ \E k \in Tokens, ok \in BOOLEAN : VrsRefresh(k, ok)
    \/ \E k \in Tokens : DeactivateSession(k, TRUE)
    \/ \E u \in Users : DeactivateAllUserSessions(u, TRUE)
    \/ CleanupExpiredSessions(TRUE)
    \/ AppTick

SpecSliding == Init /\ [][NextSliding]_vars

\* ======================================================= claims, cookie-keyed
SessionsOf(u) == {s \in DOMAIN user_sessions : user_sessions[s].user_id = u}
ActiveOf(u) == {s \in SessionsOf(u) : user_sessions[s].status = "active"}
Returned(s) == calls[s].pc = "returned"
Accepted(u, s) == ValidateReason(user_sessions, u, s, TRUE, now) = "valid"
Latest(S) == CHOOSE s \in S : \A r \in S : r <= s

\* C1: in every reachable state of user_sessions each user_id has at most one
\* row with status 'active', also between createUserSession's insert and its
\* revoke_other_sessions RPC and when that RPC errors.
C1_AtMostOneActivePerUser ==
    \A u \in Users : Cardinality(ActiveOf(u)) <= 1

\* C2: when two createUserSession calls for the same user have both
\* completed, exactly one of the two session ids is accepted by
\* validateSession.
C2_ExactlyOneWins ==
    \A u \in Users : \A s1, s2 \in SessionIds :
        ( /\ s1 < s2
          /\ SessionsOf(u) = {s1, s2}
          /\ Returned(s1)
          /\ Returned(s2) )
        => Cardinality({s \in {s1, s2} : Accepted(u, s)}) = 1

\* C3: after N createUserSession calls for one user, each returned before
\* the next started, validateSession accepts the last call's session id and
\* answers 'revoked' for every earlier one.
C3_OnlyLastLoginAccepted ==
    \A u \in Users :
        (SessionsOf(u) # {} /\ \A s \in SessionsOf(u) : Returned(s))
        => \A s \in SessionsOf(u) :
              ValidateReason(user_sessions, u, s, TRUE, now) =
                 IF s = Latest(SessionsOf(u)) THEN "valid" ELSE "revoked"

\* C4: once a row's status has left 'active', no step of any operation makes
\* it 'active' again.
C4_NeverReactivated ==
    [][\A s \in DOMAIN user_sessions :
          (user_sessions[s].status # "active" /\ s \in DOMAIN user_sessions')
          => user_sessions'[s].status # "active"]_vars

\* A row left 'active' a day ago; since then its user has logged in again
\* and the heartbeat has been offered the closed row; it is still closed.
C4_Witness ==
    \E s, r \in DOMAIN user_sessions :
        /\ user_sessions[s].status = "revoked"
        /\ user_sessions[s].revoked_at < now
        /\ user_sessions[r].user_id = user_sessions[s].user_id
        /\ user_sessions[r].status = "active"
        /\ user_sessions[r].last_activity_at = now

\* C5: every row has revoked_at set exactly when its status is not 'active'.
C5_RevokedAtIffNotActive ==
    \A s \in DOMAIN user_sessions :
        (user_sessions[s].revoked_at # NULL) <=> (user_sessions[s].status # "active")

\* A row has just been closed, next to an open one.
C5_Witness ==
    /\ \E s \in DOMAIN user_sessions :
          user_sessions[s].status = "revoked" /\ user_sessions[s].revoked_at = now
    /\ \E s \in DOMAIN user_sessions : user_sessions[s].status = "active"

\* C6: a revokeSession that follows a successful revokeSession and finds its
\* row already revoked reports success and changes nothing: status and
\* revoked_at stay as the first call wrote them.
C6_SecondRevokeIsNoOp ==
    [][\A u \in Users : \A s \in AnyId :
          ( /\ ret = Ret("revokeSession", "true")
            /\ RowFor(user_sessions, u, s)
            /\ user_sessions[s].status = "revoked"
            /\ RevokeSession(u, s, TRUE) )
          => (ret'.result = "true" /\ user_sessions'[s] = user_sessions[s])]_vars

\* C7: with a successful lookup, validateSession answers by the stored row
\* alone: 'not_found' iff there is no row for (user, session id), 'revoked'
\* iff the row is revoked, valid iff the row is active.
C7_AnswerByStoredRow ==
    [][\A u \in Users : \A s \in AnyId :
          (ret'.op = "validateSession" /\ ValidateSession(u, s, TRUE)) =>
            /\ (ret'.result = "not_found") <=> ~RowFor(user_sessions, u, s)
            /\ (ret'.result = "revoked") <=>
                  (RowFor(user_sessions, u, s) /\ user_sessions[s].status = "revoked")
            /\ (ret'.result = "valid") <=>
                  (RowFor(user_sessions, u, s) /\ user_sessions[s].status = "active")]_vars

\* A session closed by revokeSession and still stored has been validated, and
\* the answer is 'revoked'.
C7_Witness ==
    /\ ret = Ret("validateSession", "revoked")
    /\ \E s \in DOMAIN user_sessions : user_sessions[s].status = "revoked"
    /\ \A u \in Users : ActiveOf(u) = {}

IdleTooLong(s) ==
    now - user_sessions[s].last_activity_at > SESSION_IDLE_TIMEOUT

C9_ExpiryReasonPersists ==
    [][\A k \in Tokens :
          ( /\ k \in DOMAIN tok_sessions
            /\ tok_sessions[k].status = "expired"
            /\ LibValidateRead(k, TRUE) )
          => tokRet'.result = EXPIRED_REASON]_vars

C11_SuccessMeansActivityUpdated ==
    [][\A ok \in BOOLEAN :
          (HbUpdate(ok) /\ resp'.status = 200)
          => /\ hb.sid \in DOMAIN user_sessions'
             /\ user_sessions'[hb.sid].last_activity_at = now]_vars

\* C12: when validateSession's store query fails while the session's row is
\* active, the heartbeat route does not answer 401 with revoked = true.
C12_LookupFailureIsNotRevocation ==
    [][\A u \in Users : \A s \in AnyId :
          (is_session_valid(user_sessions, u, s) /\ HbValidate(u, s, FALSE))
          => ~(resp'.status = 401 /\ resp'.revoked)]_vars

\* C14: once a second login of the same user has completed, the next
\* heartbeat of the first login's session is answered 401 with revoked = true
\* and reason 'revoked'.
C14_FirstDeviceRejected ==
    [][\A u \in Users : \A s1, s2 \in SessionIds :
          ( /\ s1 < s2
            /\ RowFor(user_sessions, u, s1) /\ RowFor(user_sessions, u, s2)
            /\ Returned(s1) /\ Returned(s2)
            /\ HbValidate(u, s1, TRUE) )
          => (resp'.status = 401 /\ resp'.revoked /\ resp'.reason = "revoked")]_vars

\* C13: for a user whose credentials verify, the login route answers success
\* and issues a session id that was not issued before, whatever rows the user
\* already has: whether createUserSession's insert failed, and whether its
\* revocation of the other sessions succeeded.
C13_LoginAlwaysSucceeds ==
    [][/\ \A u \in Users : LoginInsert(u, FALSE) => resp'.status = 200
       /\ \A s \in SessionIds : \A ok \in BOOLEAN :
             LoginRevoke(s, ok) =>
                /\ resp'.ep = "login"
                /\ resp'.status = 200
                /\ s \notin IssuedCookies
                /\ s \in IssuedCookies']_vars

\* C13: a login has just been answered with success for a user whose earlier
\* session was active when the request arrived.
C13_Witness ==
    /\ resp.ep = "login"
    /\ resp.status = 200
    /\ \E u \in Users : \E s1, s2 \in SessionIds :
          /\ s1 < s2
          /\ s2 = nextId
          /\ RowFor(user_sessions, u, s1)
          /\ RowFor(user_sessions, u, s2)
          /\ Returned(s2)
          /\ user_sessions[s1].revoked_at = now
          /\ user_sessions[s2].status = "active"

\* C15: POST /api/auth/logout answers success for every request.
C15_LogoutAlwaysSucceeds ==
    [][\A u \in AnyCaller : \A s \in AnyId \cup {NULL} : \A ok \in BOOLEAN :
         \A so \in SignOutOutcomes :
            LogoutPost(u, s, ok, so) => resp'.status = 200]_vars

\* C16: when POST /api/auth/logout answers success for a request that carries
\* the cookie of an active session of the caller, that session's row is
\* 'revoked' afterwards and validateSession rejects it.
C16_LoggedOutSessionRevoked ==
    [][\A u \in Users : \A s \in SessionIds : \A ok \in BOOLEAN :
         \A so \in SignOutOutcomes :
            (/\ is_session_valid(user_sessions, u, s)
             /\ LogoutPost(u, s, ok, so)
             /\ resp'.status = 200)
            => /\ user_sessions'[s].status = "revoked"
               /\ ValidateReason(user_sessions', u, s, TRUE, now) # "valid"]_vars

\* C19: the notice 'you have been logged in from another device' is given,
\* by the heartbeat route or by the middleware's redirect, only for a session
\* whose row has status 'revoked'.
C19_ElsewhereOnlyWhenRevoked ==
    [][/\ \A u \in AnyCaller : \A s \in AnyId \cup {NULL} : \A ok \in BOOLEAN :
             (HbValidate(u, s, ok) /\ resp'.notice = "elsewhere")
             => (RowFor(user_sessions, u, s) /\ user_sessions[s].status = "revoked")
       /\ \A u \in AnyCaller : \A s \in AnyId \cup {NULL} : \A rpc \in RpcOutcomes :
           \A path \in Paths :
             (Middleware(u, s, rpc, path) /\ resp'.notice = "elsewhere")
             => (RowFor(user_sessions, u, s) /\ user_sessions[s].status = "revoked")]_vars

\* The rows of every user other than p are, after the step, what they were
\* before it.
OthersUntouched(p) ==
    \A s \in DOMAIN user_sessions :
        user_sessions[s].user_id # p =>
            /\ s \in DOMAIN user_sessions'
            /\ user_sessions'[s] = user_sessions[s]

\* C20: createUserSession, revokeSession and revokeAllUserSessions called
\* for user p leave every row of every other user as it was: its status, its
\* revoked_at and its last_activity_at. Stated by contraposition: a step
\* that changes a row of another user is none of p's calls.
C20_OtherUsersUntouched ==
    [][\A p \in Users :
         ~OthersUntouched(p) =>
            ~(\/ \E ok \in BOOLEAN : CreateInsert(p, ok)
              \/ \E s \in SessionIds : \E ok \in BOOLEAN :
                    calls[s].user = p /\ CreateRevoke(s, ok)
              \/ \E s \in AnyId : \E ok \in BOOLEAN : RevokeSession(p, s, ok)
              \/ \E ok \in BOOLEAN : RevokeAllUserSessions(p, ok))]_vars

\* C20: user p logged in after user q and p's session has since been
\* revoked, while q's session is active with the activity time of its
\* login.
C20_Witness ==
    \E p, q \in Users : \E sp, sq \in SessionIds :
        /\ p # q
        /\ sq < sp
        /\ RowFor(user_sessions, p, sp)
        /\ RowFor(user_sessions, q, sq)
        /\ Returned(sp)
        /\ Returned(sq)
        /\ user_sessions[sp].status = "revoked"
        /\ user_sessions[sq].status = "active"
        /\ user_sessions[sq].revoked_at = NULL

\* C17: once handleSessionRevoked has run, the hook sends no further
\* heartbeat request and does not enter handleSessionRevoked again.
C17_StopsForGood ==
    [][mon.logouts > 0 =>
          /\ mon'.probes <= mon.probes
          /\ mon'.logouts = mon.logouts]_vars

\* C18: each client monitor has at most one probe in flight.
C18_OneProbeInFlight ==
    /\ mon.checks + mon.probes <= 1
    /\ mon.svProbes <= 1
    /\ mon.pvProbes <= 1

\* C21: when rpc('is_session_valid') answers without error, a request of an
\* authenticated user for a route that is not public, whose session_id cookie
\* is missing or names no active session of that user, does not proceed: the
\* middleware answers with the redirect that carries session_revoked=true and
\* deletes the session_id and 'sb-' cookies.
C21_InvalidSessionRedirected ==
    [][\A u \in Users : \A s \in AnyId \cup {NULL} : \A path \in Paths :
         (/\ ~isPublicRoute(path)
          /\ ~(RowFor(user_sessions, u, s) /\ user_sessions[s].status = "active")
          /\ Middleware(u, s, "ok", path))
         => /\ resp'.status = 307
            /\ resp'.revoked
            /\ resp'.cleared]_vars

\* C21: the middleware has just answered with the logout redirect while a
\* session that completed its login is revoked.
C21_Witness ==
    /\ resp.ep = "middleware"
    /\ resp.status = 307
    /\ resp.revoked
    /\ resp.cleared
    /\ \E s \in SessionIds :
          /\ Returned(s)
          /\ s \in DOMAIN user_sessions
          /\ user_sessions[s].status = "revoked"

\* The later of two times.
Later(a, b) == IF a >= b THEN a ELSE b

\* C22: while the user of a running SessionValidator is active (the last
\* activity event is less than 30 seconds old, as was every gap between
\* events since activeSince), last_activity_at of the session's row is at
\* most 30 seconds behind: it was written within the last 30 seconds of
\* activity.
C22_ActivityWrittenEvery30s ==
    LET k == mon.sessionToken IN
    (/\ mon.validationTimerRef
     /\ k # NULL
     /\ getActiveSession(tok_sessions, k)
     /\ now - mon.lastActivityRef < ACTIVITY_DEBOUNCE_MS)
    => now - Later(tok_sessions[k].last_activity_at, mon.activeSince)
          <= ACTIVITY_DEBOUNCE_MS

C23_OnlyRevokedAnswerLogsOut ==
    [][\A o \in HeartbeatOutcomes \ {"revoked"} :
         HeartbeatReturns(o) =>
            /\ mon'.logouts = mon.logouts
            /\ mon'.heartbeatIntervalRef = mon.heartbeatIntervalRef
            /\ mon'.sessionCheckIntervalRef = mon.sessionCheckIntervalRef
            /\ mon'.isMonitoringRef = mon.isMonitoringRef]_vars

\* C23: the last heartbeat failed at the network level, and the hook is
\* still monitoring with both intervals running and handleSessionRevoked
\* not run.
C23_Witness ==
    /\ mon.answered = "network"
    /\ mon.phase = "mounted"
    /\ mon.isMonitoringRef
    /\ mon.heartbeatIntervalRef
    /\ mon.sessionCheckIntervalRef
    /\ mon.checks = 0
    /\ mon.probes = 0
    /\ mon.logouts = 0

\* The table as it would be had its sessions been created from the devices
\* d names, and a table without what its rows say of their devices.
OnDevices(tbl, d) ==
    [s \in DOMAIN tbl |-> [tbl[s] EXCEPT !.device_info = d[s]]]
Authority(tbl) ==
    [s \in DOMAIN tbl |-> [tbl[s] EXCEPT !.device_info = "-"]]

\* C24: whatever device_info, ip_address and user_agent the sessions were
\* created with, every operation answers the same and leaves the same users,
\* statuses and times in every row: a validation, a login's insert and its
\* revocation of the other sessions, a heartbeat's update, and the two
\* revocations of a logout. Two runs that differ only in the metadata so
\* agree step by step.
C24_MetadataNeverDecides ==
    \A d \in [DOMAIN user_sessions -> Devices] :
        LET A == OnDevices(user_sessions, d)
            B == user_sessions
        IN  \A u \in Users :
              /\ Authority(RevokeAllUpdate(A, u, now))
                    = Authority(RevokeAllUpdate(B, u, now))
              /\ Authority(InsertSession(A, u, nextId + 1, now))
                    = Authority(InsertSession(B, u, nextId + 1, now))
              /\ \A s \in AnyId :
                    /\ \A ok \in BOOLEAN :
                          ValidateReason(A, u, s, ok, now)
                             = ValidateReason(B, u, s, ok, now)
                    /\ is_session_valid(A, u, s) = is_session_valid(B, u, s)
                    /\ Authority(revoke_other_sessions(A, u, s, now))
                          = Authority(revoke_other_sessions(B, u, s, now))
                    /\ Authority(update_session_activity(A, s, now))
                          = Authority(update_session_activity(B, s, now))
                    /\ Authority(RevokeSessionUpdate(A, u, s, now))
                          = Authority(RevokeSessionUpdate(B, u, s, now))

\* C24: a heartbeat has been validated for the later of two sessions of one
\* user, the earlier of which the later login revoked.
C24_Witness ==
    /\ hb.pc = "validated"
    /\ \E s1, s2 \in DOMAIN user_sessions :
          /\ s1 < s2
          /\ hb.sid = s2
          /\ user_sessions[s1].user_id = user_sessions[s2].user_id
          /\ user_sessions[s1].status = "revoked"
          /\ user_sessions[s2].status = "active"

\* C25: when two createUserSession calls for one user have both completed,
\* the row inserted first is 'revoked' and the row inserted last is
\* 'active'.
C25_NewestLoginWins ==
    \A u \in Users : \A s1, s2 \in SessionIds :
        ( /\ s1 < s2
          /\ SessionsOf(u) = {s1, s2}
          /\ Returned(s1)
          /\ Returned(s2) )
        => /\ user_sessions[s1].status = "revoked"
           /\ user_sessions[s2].status = "active"

C27_HeartbeatTouchesOnlyActivity ==
    [][/\ \A u \in AnyCaller : \A s \in AnyId \cup {NULL} : \A ok \in BOOLEAN :
             HbValidate(u, s, ok) => user_sessions' = user_sessions
       /\ \A ok \in BOOLEAN :
             HbUpdate(ok) =>
                /\ DOMAIN user_sessions' = DOMAIN user_sessions
                /\ \A s \in DOMAIN user_sessions :
                      /\ [user_sessions'[s] EXCEPT !.last_activity_at =
                               user_sessions[s].last_activity_at] = user_sessions[s]
                      /\ (s # hb.sid \/ user_sessions[s].status # "active")
                            => user_sessions'[s] = user_sessions[s]]_vars

\* C27: a heartbeat has been answered with success; the session of one user
\* carries the time of the heartbeat, later than its login, and a revoked
\* session still carries the time of its own login.
C27_Witness ==
    /\ resp.ep = "heartbeat"
    /\ resp.status = 200
    /\ now > 0
    /\ \E s1, s2 \in DOMAIN user_sessions :
          /\ user_sessions[s1].status = "revoked"
          /\ user_sessions[s1].last_activity_at < now
          /\ user_sessions[s2].status = "active"
          /\ user_sessions[s2].last_activity_at = now

\* C28: validateSession of the token library rejects an active session as
\* expired only when the time since its last activity is strictly greater
\* than SESSION_IDLE_TIMEOUT: a validation whose lookup succeeds on an active
\* session idle for the timeout exactly, or for less, answers 'valid'.
C28_ExactThresholdAccepted ==
    [][\A k \in Tokens :
         (/\ getActiveSession(tok_sessions, k)
          /\ now - tok_sessions[k].last_activity_at <= SESSION_IDLE_TIMEOUT
          /\ LibValidateRead(k, TRUE))
         => tokRet' = Ret("validateSession", "valid")]_vars

\* C29: when the session check of the middleware fails on the store (the
\* is_session_valid rpc returns an error or throws) for an authenticated
\* request that carries a session_id cookie, updateSession forces no logout:
\* the response is no redirect, carries no session_revoked, deletes no cookie.
C29_StoreErrorNeverLogsOut ==
    [][\A u \in Users : \A s \in AnyId : \A path \in Paths :
       \A rpc \in {"error", "throws"} :
         (~isPublicRoute(path) /\ Middleware(u, s, rpc, path))
         => /\ resp'.status = 200
            /\ ~resp'.revoked
            /\ ~resp'.cleared]_vars

\* C31: cleanup_old_sessions(d) deletes only rows that are 'revoked' with a
\* revoked_at more than d days old and changes no row it keeps: every active
\* row is still there unchanged, so the same sessions validate as 'valid'
\* after it as before, and no active session validates as 'not_found'. (A
\* cleanup that leaves the table as it was has all of this at once.)
C31_CleanupSparesActive ==
    [][\A d \in 0..MaxDays :
         (user_sessions' # user_sessions /\ CleanupOldSessions(d)) =>
            /\ DOMAIN user_sessions' \subseteq DOMAIN user_sessions
            /\ \A s \in DOMAIN user_sessions' : user_sessions'[s] = user_sessions[s]
            /\ \A s \in DOMAIN user_sessions \ DOMAIN user_sessions' :
                  /\ user_sessions[s].status = "revoked"
                  /\ user_sessions[s].revoked_at # NULL
                  /\ now - user_sessions[s].revoked_at > d * DayMs
            /\ \A u \in Users : \A s \in AnyId :
                  /\ Accepted(u, s) <=> Accepted(u, s)'
                  /\ (RowFor(user_sessions, u, s) /\ user_sessions[s].status = "active")
                        => ValidateReason(user_sessions', u, s, TRUE, now') # "not_found"]_vars

\* C31: a session that logged in has no row any more (cleanup deleted it)
\* while an active session is still stored.
C31_Witness ==
    /\ \E s \in 1..nextId : s \notin DOMAIN user_sessions
    /\ \E s \in DOMAIN user_sessions : user_sessions[s].status = "active"

\* No timer of the SessionValidator is set in m.
NoTimers(m) ==
    /\ ~m.validationTimerRef
    /\ m.activityTimerRef = NULL
    /\ m.idleWarningTimerRef = NULL

C34_LogoutClearsToken ==
    [][LbSignOutReturns(TRUE) => mon'.sessionToken = NULL]_vars

\* C35: every session id that POST /api/auth/single-session-login hands out
\* with success names, when the response is produced, a row that exists with
\* status 'active': a login whose insert failed does not answer success, and
\* a login that answers success after its revoke_other_sessions leaves its
\* own row active.
C35_HandedSessionIsActive ==
    [][/\ \A u \in Users : LoginInsert(u, FALSE) => resp'.status # 200
       /\ \A s \in SessionIds : \A ok \in BOOLEAN :
             (LoginRevoke(s, ok) /\ resp'.status = 200) =>
                /\ s \in DOMAIN user_sessions'
                /\ user_sessions'[s].status = "active"]_vars

\* C36: on one page the SessionValidator has at most one forceLogout under
\* way: once a forceLogout has been entered, the realtime event or a
\* rejected validation of the same session does not enter it again, so
\* signOut, the alert and the redirect are not run a second time.
C36_ForceLogoutOnce ==
    mon.svLoggingOut <= 1

\* C37: the request that follows a forced-logout redirect of the middleware
\* is for the path "/", a public route, and whatever user and cookies it
\* carries and whatever the store answers, it proceeds: it is not answered
\* with another redirect and no cookie is deleted.
C37_LogoutRedirectDoesNotLoop ==
    [][\A u \in AnyCaller : \A s \in AnyId \cup {NULL} : \A rpc \in RpcOutcomes :
         (/\ resp.ep = "middleware"
          /\ resp.status = 307
          /\ resp.revoked
          /\ Middleware(u, s, rpc, resp.location))
         => /\ resp.location = "/"
            /\ resp'.status = 200
            /\ ~resp'.revoked
            /\ ~resp'.cleared]_vars

\* C37: the middleware has let the request pass that followed a
\* forced-logout redirect, while a session that completed its login is
\* revoked.
C37_Witness ==
    /\ resp.ep = "middleware"
    /\ resp.followed
    /\ resp.status = 200
    /\ \E s \in SessionIds :
          /\ Returned(s)
          /\ s \in DOMAIN user_sessions
          /\ user_sessions[s].status = "revoked"

\* C38: in the token-keyed library a row goes from 'active' to 'expired'
\* only in a step at which its stored last_activity_at is at least
\* SESSION_IDLE_TIMEOUT old: the expiry write of validateSession does not
\* override an updateSessionActivity committed since validateSession read
\* the row.
C38_ExpiryOnlyWhenIdle ==
    [][\A k \in DOMAIN tok_sessions :
         (/\ tok_sessions[k].status = "active"
          /\ k \in DOMAIN tok_sessions'
          /\ tok_sessions'[k].status = "expired")
         => now - tok_sessions[k].last_activity_at >= SESSION_IDLE_TIMEOUT]_vars

====
